---- MODULE Spec2Model ----
(***************************************************************************)
(* State-machine model of the host-telemetry monitor                       *)
(* (src/src/resource_monitor.rs): the ResourceMonitor struct, its three    *)
(* update entry points, the process aggregation and the two graph          *)
(* renderers.                                                              *)
(*                                                                         *)
(* Representation of Rust values                                           *)
(*   f32      a record [k, v]: k = "fin" with v the value in units of      *)
(*            1/SCALE (fixed point, rounded to nearest), k = "nan" or      *)
(*            k = "-inf" for the two special values the code can produce   *)
(*   u64      a natural number                                             *)
(*   Option   <<>> is None, <<x>> is Some(x)                               *)
(*   [T; N]   a sequence of length N; Rust index i is TLA+ index i+1       *)
(*   String   a sequence of code points                                    *)
(***************************************************************************)
EXTENDS Integers, Sequences, FiniteSets, TLC

\* ------------------------------------------------------------------------
\* Program constants
\* ------------------------------------------------------------------------
MAX_CPU_FREQ == 5500
GRAPH_CHAR_WIDTH == 28
\* BLOCK_GRAPH_GLYPHS as code points: ' ' and U+2581 .. U+2588
BLOCK_GRAPH_GLYPHS == <<32, 9601, 9602, 9603, 9604, 9605, 9606, 9607, 9608>>
\* ALPHA = 0.95 and ALPHA_SMOOTH = 0.99, in hundredths
ALPHA == 95
ALPHA_SMOOTH == 99

\* ------------------------------------------------------------------------
\* f32 values
\* ------------------------------------------------------------------------
\* resolution of the fixed-point representation: one unit is 1/SCALE
SCALE == 1000

Fin(n) == [k |-> "fin", v |-> n]
\* an integer (or u64 converted with `as f32`) as an f32
F(n) == Fin(n * SCALE)
NAN == [k |-> "nan", v |-> 0]
NEG_INFINITY == [k |-> "-inf", v |-> 0]

IsFin(a) == a.k = "fin"
IsNan(a) == a.k = "nan"

\* n / d rounded to the nearest integer, halves away from zero (d > 0)
RoundDiv(n, d) ==
    IF n >= 0 THEN (2 * n + d) \div (2 * d)
    ELSE -((2 * (-n) + d) \div (2 * d))

\* a + b
FAdd(a, b) ==
    IF IsNan(a) \/ IsNan(b) THEN NAN
    ELSE IF ~IsFin(a) \/ ~IsFin(b) THEN NEG_INFINITY
    ELSE Fin(a.v + b.v)

\* (num/den) * a for a positive factor num/den
FScale(num, den, a) ==
    IF IsFin(a) THEN Fin(RoundDiv(num * a.v, den)) ELSE a

\* a / b for integers a >= 0 and b >= 0 converted to f32 (0/0 is NaN)
FDivInt(a, b) ==
    IF b = 0 THEN NAN ELSE Fin(RoundDiv(a * SCALE, b))

\* a < b, false when either is NaN
FLt(a, b) ==
    /\ ~IsNan(a) /\ ~IsNan(b)
    /\ IF IsFin(a) /\ IsFin(b) THEN a.v < b.v
       ELSE ~IsFin(a) /\ IsFin(b)

\* f32::max: the larger value; a NaN operand is ignored
FMax(a, b) ==
    IF IsNan(a) THEN b
    ELSE IF IsNan(b) THEN a
    ELSE IF FLt(a, b) THEN b ELSE a

\* f32::clamp(lo, hi) with finite lo <= hi; NaN stays NaN
FClamp(a, lo, hi) ==
    IF IsNan(a) THEN a
    ELSE IF FLt(a, lo) THEN lo
    ELSE IF FLt(hi, a) THEN hi ELSE a

\* f32::partial_cmp: None when either operand is NaN
FPartialCmp(a, b) ==
    IF IsNan(a) \/ IsNan(b) THEN <<>>
    ELSE IF FLt(a, b) THEN <<"Less">>
    ELSE IF FLt(b, a) THEN <<"Greater">>
    ELSE <<"Equal">>

\* u64::partial_cmp
U64PartialCmp(a, b) ==
    IF a < b THEN <<"Less">> ELSE IF a > b THEN <<"Greater">> ELSE <<"Equal">>

\* Option::unwrap_or
UnwrapOr(opt, dflt) == IF opt = <<>> THEN dflt ELSE opt[1]

U64Max(a, b) == IF a >= b THEN a ELSE b

\* ------------------------------------------------------------------------
\* State
\* ------------------------------------------------------------------------
VARIABLES
    \* ResourceMonitor fields
    nv,               \* Option<Nvml>: TRUE is Some, FALSE is None
    gpu_name,
    cpu_info,         \* CpuInfo
    gpu_info,         \* GpuInfo
    smooth,           \* InterpolatedInfo
    process_info,     \* Vec<ProcessInfo>
    process_sort_by,  \* ProcessBy
    ram_used,
    cpu_avgs,         \* [f32; GRAPH_CHAR_WIDTH]
    gpu_avgs,         \* [f32; GRAPH_CHAR_WIDTH]
    \* the sysinfo System handle `sys`, as last refreshed
    sys_global_cpu_usage,
    sys_cpus,         \* sequence of [cpu_usage, frequency], one per logical CPU
    sys_used_memory,
    sys_processes,    \* process table: pid -> [name, cpu_usage, memory]
    \* the animation-uniform sink (FragmentShaderProgram.uniforms)
    uniforms,
    \* the caller's position
    gpudat,           \* the local `gpudat` of the last update_cpu_gpu_mem
    frames,           \* number of update_visual calls so far
    sorted_by,        \* the sort key the last update_processes used, if any
    \* history of the samples handed to the two history buffers, oldest first
    cpu_pushed,
    gpu_pushed,
    \* the renderers' call: arguments and returned strings
    g_data,
    g_lines,
    rendered,         \* whether the renderers have returned
    block_out,
    braille_out,
    \* one run of the Bresenham loop: `last`, `pt` and the pixels it handed to
    \* set_pixel; empty sequences when no line is drawn
    l_from,
    l_to,
    l_pixels

monitor_vars == <<nv, gpu_name, cpu_info, gpu_info, smooth, process_info,
                  process_sort_by, ram_used, cpu_avgs, gpu_avgs>>
sys_vars == <<sys_global_cpu_usage, sys_cpus, sys_used_memory, sys_processes>>
call_vars == <<gpudat, frames, sorted_by, cpu_pushed, gpu_pushed>>
graph_vars == <<g_data, g_lines, rendered, block_out, braille_out,
                l_from, l_to, l_pixels>>
vars == <<monitor_vars, sys_vars, uniforms, call_vars, graph_vars>>

\* ------------------------------------------------------------------------
\* Bounds of the model
\* ------------------------------------------------------------------------
\* calls of each entry point in the interleaving specification
MaxTicks == 2
MaxFrames == 2
\* logical CPUs of the host
MaxCpus == 2
\* process ids of the process table
MaxPid == 3
\* data ticks beyond the capacity of a history buffer, and failed GPU queries,
\* in the long run of data ticks
HistExtra == 2
MaxGpuFailures == 2
\* length of the renderers' input and rows of braille_graph
MaxData == 3
MaxLines == 2
\* update_visual calls and data ticks in the run under a steady load
MaxEmaFrames == 60
MaxSteadyTicks == 1

\* ------------------------------------------------------------------------
\* Data types and their defaults
\* ------------------------------------------------------------------------
\* GpuInfo::default()
GpuInfoDefault ==
    [mem_used |-> 0, mem_total |-> 0, clock |-> F(0), power |-> F(0), util |-> F(0)]

\* InterpolatedInfo::default()
InterpolatedInfoDefault ==
    [cpu_avg |-> F(0), cpu_max |-> F(0), cpu_freq |-> F(0),
     cpu_avg_smooth |-> F(0), cpu_freq_smooth |-> F(0), cpu_max_smooth |-> F(0),
     gpu_clock |-> F(0), gpu_power |-> F(0), gpu_util |-> F(0)]

\* [0.0; GRAPH_CHAR_WIDTH]
ZeroHistory == [i \in 1..GRAPH_CHAR_WIDTH |-> F(0)]

\* ------------------------------------------------------------------------
\* update_cpu_gpu_mem
\* ------------------------------------------------------------------------
\* cpus.iter().map(|cpu| cpu.cpu_usage()).fold(f32::NEG_INFINITY, |a, b| a.max(b))
RECURSIVE FoldMax(_, _, _)
FoldMax(cpus, i, acc) ==
    IF i > Len(cpus) THEN acc
    ELSE FoldMax(cpus, i + 1, FMax(acc, cpus[i].cpu_usage))

CpuMax(cpus) == FoldMax(cpus, 1, NEG_INFINITY)

\* cpus.iter().map(|cpu| cpu.frequency()).sum::<u64>()
RECURSIVE SumFrequency(_, _)
SumFrequency(cpus, i) ==
    IF i > Len(cpus) THEN 0 ELSE cpus[i].frequency + SumFrequency(cpus, i + 1)

\* ... .sum::<u64>() as f32 / self.cpu_info.cpu_count as f32
CpuFreq(cpus, cpu_count) == FDivInt(SumFrequency(cpus, 1), cpu_count)

\* a gpu_update that queries the device without looking at the provider
gpu_update_unguarded(nvml, dev) == dev

\* gpu_update(&self.nv).ok(): `dev` is the outcome of the device queries
\* (<<>> when one of them fails), consulted only when a provider exists
gpu_update(nvml, dev) == IF nvml THEN dev ELSE <<>>

\* a snapshot update that zeroes the snapshot when the query fails
NextGpuInfoZeroed(dat, old) == UnwrapOr(dat, GpuInfoDefault)

\* self.gpu_info = gpudat.unwrap_or(self.gpu_info)
NextGpuInfo(dat, old) == UnwrapOr(dat, old)

\* a push that overwrites index 0 without rotating
PushFrontNoRotate(buf, v) == [buf EXCEPT ![1] = v]

\* buf.rotate_right(1); buf[0] = v
PushFront(buf, v) == <<v>> \o SubSeq(buf, 1, Len(buf) - 1)

\* a GPU history push on every tick, of the carried-forward utilization when
\* the query fails
NextGpuAvgsEveryTick(dat, buf) ==
    IF dat = <<>> THEN PushFront(buf, buf[1]) ELSE PushFront(buf, dat[1].util)

\* if let Some(gpudat) = gpudat { rotate_right(1); gpu_avgs[0] = gpudat.util }
NextGpuAvgs(dat, buf) == IF dat = <<>> THEN buf ELSE PushFront(buf, dat[1].util)

\* the samples the tick hands to the GPU history buffer
GpuSamples(dat) == IF dat = <<>> THEN <<>> ELSE <<dat[1].util>>

\* one data-refresh tick: the refresh reads `usage`, `cpus`, `mem` from the host
\* and the GPU queries give `dev`
UpdateCpuGpuMem(usage, cpus, mem, dev) ==
    LET dat == gpu_update(nv, dev) IN
    /\ sys_global_cpu_usage' = usage
    /\ sys_cpus' = cpus
    /\ sys_used_memory' = mem
    /\ cpu_info' = [cpu_info EXCEPT
                      !.cpu_avg = usage,
                      !.cpu_max = CpuMax(cpus),
                      !.cpu_freq = CpuFreq(cpus, cpu_info.cpu_count)]
    /\ ram_used' = mem
    /\ gpudat' = dat
    /\ gpu_info' = NextGpuInfo(dat, gpu_info)
    /\ cpu_avgs' = PushFront(cpu_avgs, usage)
    /\ gpu_avgs' = NextGpuAvgs(dat, gpu_avgs)
    /\ cpu_pushed' = Append(cpu_pushed, usage)
    /\ gpu_pushed' = gpu_pushed \o GpuSamples(dat)
    /\ UNCHANGED <<nv, gpu_name, smooth, process_info, process_sort_by,
                   sys_processes, uniforms, frames, sorted_by,
                   graph_vars>>

\* ------------------------------------------------------------------------
\* set_process_sorting
\* ------------------------------------------------------------------------
SetProcessSorting(sort_by) ==
    /\ process_sort_by' = sort_by
    /\ UNCHANGED <<nv, gpu_name, cpu_info, gpu_info, smooth, process_info,
                   ram_used, cpu_avgs, gpu_avgs, sys_vars, uniforms, gpudat,
                   frames, sorted_by, cpu_pushed, gpu_pushed,
                   graph_vars>>

\* ------------------------------------------------------------------------
\* update_processes
\* ------------------------------------------------------------------------
\* a comparator that sorts ascending
compare_ascending(self, a, b) ==
    IF self = "Cpu" THEN UnwrapOr(FPartialCmp(a.cpu, b.cpu), "Equal")
    ELSE UnwrapOr(U64PartialCmp(a.mem, b.mem), "Equal")

\* ProcessBy::compare
compare(self, a, b) ==
    IF self = "Cpu" THEN UnwrapOr(FPartialCmp(b.cpu, a.cpu), "Equal")
    ELSE UnwrapOr(U64PartialCmp(b.mem, a.mem), "Equal")

\* a merge that adds the instances up
MergeSum(pi, pi_old) ==
    [name |-> pi_old.name,
     pid |-> pi_old.pid,
     cpu |-> FAdd(pi.cpu, pi_old.cpu),
     mem |-> pi.mem + pi_old.mem]

\* the record stored for a name that is already in the map
Merge(pi, pi_old) ==
    [name |-> pi_old.name,
     pid |-> pi_old.pid,
     cpu |-> FMax(pi.cpu, pi_old.cpu),
     mem |-> U64Max(pi.mem, pi_old.mem)]

\* HashMap::insert
MapInsert(map, key, value) ==
    (key :> value) @@ map

\* the loop over self.sys.processes(), visiting the pids in the order `order`
RECURSIVE Aggregate(_, _, _, _)
Aggregate(table, order, i, processes) ==
    IF i > Len(order) THEN processes
    ELSE LET pid == order[i]
             pi == [name |-> table[pid].name,
                    cpu |-> table[pid].cpu_usage,
                    mem |-> table[pid].memory,
                    pid |-> pid]
         IN Aggregate(table, order, i + 1,
                IF pi.name \in DOMAIN processes
                THEN MapInsert(processes, pi.name, Merge(pi, processes[pi.name]))
                ELSE MapInsert(processes, pi.name, pi))

\* the place of a new element in an already sorted vector: behind every element
\* that does not compare Greater than it (the sort is stable)
RECURSIVE InsertSorted(_, _, _, _)
InsertSorted(self, sorted, x, i) ==
    IF i > Len(sorted) \/ compare(self, x, sorted[i]) = "Less"
    THEN SubSeq(sorted, 1, i - 1) \o <<x>> \o SubSeq(sorted, i, Len(sorted))
    ELSE InsertSorted(self, sorted, x, i + 1)

\* Itertools::sorted_by(|a, b| self.compare(a, b)) over the values
RECURSIVE SortedBy(_, _, _, _)
SortedBy(self, values, i, sorted) ==
    IF i > Len(values) THEN sorted
    ELSE SortedBy(self, values, i + 1, InsertSorted(self, sorted, values[i], 1))

\* the sequences that list every element of S once: the orders in which a
\* HashMap may hand out its entries
RECURSIVE Orders(_)
Orders(S) ==
    IF S = {} THEN {<<>>}
    ELSE UNION {{<<x>> \o o : o \in Orders(S \ {x})} : x \in S}

\* HashMap::into_values, handing out the values in the order `order` of the keys
IntoValues(processes, order) == [i \in DOMAIN order |-> processes[order[i]]]

\* the maps the loop can build from a table, over the orders in which the
\* table can hand out its entries
Aggregations(table) ==
    {Aggregate(table, pid_order, 1, <<>>) : pid_order \in Orders(DOMAIN table)}

\* processes.into_values().sorted_by(..).collect(), over the orders in which
\* the map can hand out its values
SortedLists(self, processes) ==
    {SortedBy(self, IntoValues(processes, name_order), 1, <<>>) :
        name_order \in Orders(DOMAIN processes)}

\* every record list one update_processes call can produce on a table
ProcessLists(self, table) ==
    UNION {SortedLists(self, processes) : processes \in Aggregations(table)}

\* the names of a process table
TableNames(table) == {table[p].name : p \in DOMAIN table}

\* process readings of the host
ProcReadings ==
    {[name |-> n, cpu_usage |-> F(c[1]), memory |-> c[2]] :
        n \in {"x", "y"}, c \in {<<10, 100>>, <<40, 50>>}}

\* process tables: any set of pids, each with a reading
Tables == UNION {[P -> ProcReadings] : P \in SUBSET (1..MaxPid)}

\* one process refresh: the refresh reads the process table `table`
UpdateProcesses(table) ==
    /\ sys_processes' = table
    /\ process_info' \in ProcessLists(process_sort_by, table)
    /\ sorted_by' = <<process_sort_by>>
    /\ UNCHANGED <<nv, gpu_name, cpu_info, gpu_info, smooth, process_sort_by,
                   ram_used, cpu_avgs, gpu_avgs, sys_global_cpu_usage, sys_cpus,
                   sys_used_memory, uniforms, gpudat, frames, cpu_pushed,
                   gpu_pushed, graph_vars>>

\* ------------------------------------------------------------------------
\* update_visual
\* ------------------------------------------------------------------------
\* the weights of the two operands exchanged
to_swapped(from, target) == FAdd(FScale(100 - ALPHA, 100, from), FScale(ALPHA, 100, target))

\* the closure `to`: ALPHA * from + (1. - ALPHA) * to
to(from, target) == FAdd(FScale(ALPHA, 100, from), FScale(100 - ALPHA, 100, target))

\* the closure `to_smooth`: ALPHA_SMOOTH * from + (1. - ALPHA_SMOOTH) * to
to_smooth(from, target) ==
    FAdd(FScale(ALPHA_SMOOTH, 100, from), FScale(100 - ALPHA_SMOOTH, 100, target))

\* the InterpolatedInfo assigned to self.smooth
NextSmooth(s, cpu, gpu) ==
    [cpu_avg |-> to(s.cpu_avg, cpu.cpu_avg),
     cpu_max |-> to(s.cpu_max, cpu.cpu_max),
     cpu_freq |-> to(s.cpu_freq, cpu.cpu_freq),
     cpu_avg_smooth |-> to_smooth(s.cpu_avg_smooth, cpu.cpu_avg),
     cpu_freq_smooth |-> to_smooth(s.cpu_freq_smooth, cpu.cpu_freq),
     cpu_max_smooth |-> to_smooth(s.cpu_max_smooth, cpu.cpu_max),
     gpu_clock |-> to(s.gpu_clock, gpu.clock),
     gpu_power |-> to(s.gpu_power, gpu.power),
     gpu_util |-> to(s.gpu_util, gpu.util)]

\* the three arguments of frag.update_uniforms_tick, as the sink stores them
UniformsTick(s) ==
    [cpu_util |-> FClamp(FScale(1, 100, s.cpu_avg_smooth), F(0), F(1)),
     cpu_max |-> FClamp(FScale(1, 100, s.cpu_max_smooth), F(0), F(1)),
     cpu_freq |-> FClamp(FScale(1, MAX_CPU_FREQ, s.cpu_freq_smooth), F(0), F(1))]

\* a visual tick that also pushes the smoothed utilization into the history
UpdateVisualPushing ==
    /\ smooth' = NextSmooth(smooth, cpu_info, gpu_info)
    /\ uniforms' = UniformsTick(smooth')
    /\ frames' = frames + 1
    /\ cpu_avgs' = PushFront(cpu_avgs, smooth'.cpu_avg)
    /\ UNCHANGED <<nv, gpu_name, cpu_info, gpu_info, process_info,
                   process_sort_by, ram_used, gpu_avgs, sys_vars,
                   gpudat, sorted_by, cpu_pushed, gpu_pushed,
                   graph_vars>>

UpdateVisual ==
    /\ smooth' = NextSmooth(smooth, cpu_info, gpu_info)
    /\ uniforms' = UniformsTick(smooth')
    /\ frames' = frames + 1
    /\ UNCHANGED <<nv, gpu_name, cpu_info, gpu_info, process_info,
                   process_sort_by, ram_used, cpu_avgs, gpu_avgs, sys_vars,
                   gpudat, sorted_by, cpu_pushed, gpu_pushed,
                   graph_vars>>

\* ------------------------------------------------------------------------
\* The graph renderers
\* ------------------------------------------------------------------------
Abs(n) == IF n < 0 THEN -n ELSE n

\* `x.round() as usize` / `as isize` of (num/den) * a for an f32 a:
\* the nearest integer, and 0 for NaN (the cast saturates)
RoundScaled(num, den, a) ==
    IF IsFin(a) THEN RoundDiv(num * a.v, den * SCALE) ELSE 0

\* the glyph index block_graph computes for one sample
BlockIndex(v) ==
    LET len == Len(BLOCK_GRAPH_GLYPHS)
        \* fract = 0.01 * v.clamp(0., 100.) * len; fract.round() as usize
        rounded == RoundScaled(len, 100, FClamp(v, F(0), F(100)))
    IN  \* (..).clamp(0, len - 1)
        IF rounded < 0 THEN 0 ELSE IF rounded > len - 1 THEN len - 1 ELSE rounded

\* the glyph indices of block_graph's output, one per sample
BlockIndices(data) == [i \in DOMAIN data |-> BlockIndex(data[i])]

block_graph(data) == [i \in DOMAIN data |-> BLOCK_GRAPH_GLYPHS[BlockIndex(data[i]) + 1]]

\* y = ((1.0 - v / 100.0) * (px_h as f32 - 1.0)).round() as isize, v clamped
PixelY(v, px_h) ==
    LET c == FClamp(v, F(0), F(100))
    IN IF IsFin(c) THEN RoundDiv((100 * SCALE - c.v) * (px_h - 1), 100 * SCALE)
       ELSE 0

\* the pixel coordinates of the samples: Rust index i is element i + 1
Coords(data, px_w, px_h) ==
    LET n == Len(data) IN
    IF n = 1 THEN << <<(px_w - 1) \div 2, PixelY(data[1], px_h)>> >>
    ELSE [k \in 1..n |->
            <<RoundDiv((k - 1) * (px_w - 1), n - 1), PixelY(data[k], px_h)>>]

\* a walk along x first and then along y
RECURSIVE BresenhamLoopAxis(_, _, _, _, _, _, _, _, _)
BresenhamLoopAxis(x0, y0, x1, y1, dx, sx, dy, sy, err) ==
    IF x0 = x1 /\ y0 = y1 THEN << <<x0, y0>> >>
    ELSE << <<x0, y0>> >> \o
         (IF x0 # x1 THEN BresenhamLoopAxis(x0 + sx, y0, x1, y1, dx, sx, dy, sy, err)
          ELSE BresenhamLoopAxis(x0, y0 + sy, x1, y1, dx, sx, dy, sy, err))

\* the pixels the Bresenham loop hands to set_pixel, in order, from (x0, y0)
\* with error term err until it reaches (x1, y1)
RECURSIVE BresenhamLoop(_, _, _, _, _, _, _, _, _)
BresenhamLoop(x0, y0, x1, y1, dx, sx, dy, sy, err) ==
    IF x0 = x1 /\ y0 = y1 THEN << <<x0, y0>> >>
    ELSE LET e2 == 2 * err
             stepx == e2 >= dy
             stepy == e2 <= dx
         IN << <<x0, y0>> >> \o
            BresenhamLoop(IF stepx THEN x0 + sx ELSE x0,
                          IF stepy THEN y0 + sy ELSE y0,
                          x1, y1, dx, sx, dy, sy,
                          err + (IF stepx THEN dy ELSE 0) + (IF stepy THEN dx ELSE 0))

\* the two end points only
BresenhamEndpoints(last, pt) == <<last, pt>>

\* the Bresenham line between last and pt
Bresenham(last, pt) ==
    LET dx == Abs(pt[1] - last[1])
        sx == IF last[1] < pt[1] THEN 1 ELSE -1
        dy == -Abs(pt[2] - last[2])
        sy == IF last[2] < pt[2] THEN 1 ELSE -1
    IN BresenhamLoop(last[1], last[2], pt[1], pt[2], dx, sx, dy, sy, dx + dy)

\* every set_pixel call of the drawing loop, in order
RECURSIVE DrawCalls(_, _)
DrawCalls(coords, k) ==
    IF k >= Len(coords) THEN <<>>
    ELSE Bresenham(coords[k], coords[k + 1]) \o DrawCalls(coords, k + 1)

\* only the sample points, no line between them
SetPixelCallsPointsOnly(coords) == coords

SetPixelCalls(coords) == <<coords[1]>> \o DrawCalls(coords, 1)

\* the closure set_pixel: a call outside the buffer writes nothing
InBuffer(p, px_w, px_h) == p[1] >= 0 /\ p[1] < px_w /\ p[2] >= 0 /\ p[2] < px_h

\* the index set_pixel writes for the pixel p: (y as usize) * px_w + (x as usize)
PixIndex(p, px_w) == p[2] * px_w + p[1]

\* the indices of `pix` the drawing loop writes
WriteIndices(data, px_w, px_h) ==
    LET calls == SetPixelCalls(Coords(data, px_w, px_h))
    IN {PixIndex(calls[i], px_w) :
           i \in {j \in DOMAIN calls : InBuffer(calls[j], px_w, px_h)}}

\* the indices `idx` of `pix` the packing loops read
ReadIndices(vertical_lines, px_w) ==
    {(char_row * 4 + sub_y) * px_w + (char_col * 2 + sub_x) :
        char_row \in 0..(vertical_lines - 1), char_col \in 0..(GRAPH_CHAR_WIDTH - 1),
        sub_y \in 0..3, sub_x \in 0..1}

\* the lit pixels of `pix` after the drawing loop
Canvas(data, px_w, px_h) ==
    LET calls == SetPixelCalls(Coords(data, px_w, px_h))
    IN {calls[i] : i \in {j \in DOMAIN calls : InBuffer(calls[j], px_w, px_h)}}

\* the bit of the sub-pixel (sub_x, sub_y) of a cell
BrailleBit(sub_x, sub_y) ==
    CASE sub_x = 0 /\ sub_y = 0 -> 1
      [] sub_x = 0 /\ sub_y = 1 -> 2
      [] sub_x = 0 /\ sub_y = 2 -> 4
      [] sub_x = 1 /\ sub_y = 0 -> 8
      [] sub_x = 1 /\ sub_y = 1 -> 16
      [] sub_x = 1 /\ sub_y = 2 -> 32
      [] sub_x = 0 /\ sub_y = 3 -> 64
      [] sub_x = 1 /\ sub_y = 3 -> 128
      [] OTHER -> 0

\* `bits` of the cell (char_row, char_col): the bits are distinct powers of
\* two, so or-ing them in is adding them
RECURSIVE CellBitsFrom(_, _, _, _)
CellBitsFrom(pix, char_row, char_col, s) ==
    IF s >= 8 THEN 0
    ELSE LET sub_y == s \div 2
             sub_x == s % 2
             lit == <<char_col * 2 + sub_x, char_row * 4 + sub_y>> \in pix
         IN (IF lit THEN BrailleBit(sub_x, sub_y) ELSE 0)
            + CellBitsFrom(pix, char_row, char_col, s + 1)

CellBits(pix, char_row, char_col) == CellBitsFrom(pix, char_row, char_col, 0)

\* the character pushed for a cell: ' ' or U+2800 + bits
CellChar(bits) == IF bits = 0 THEN 32 ELSE 10240 + bits

\* a row that always ends in '\n'
BrailleRowTrailing(pix, char_row, vertical_lines) ==
    [c \in 1..GRAPH_CHAR_WIDTH |-> CellChar(CellBits(pix, char_row, c - 1))]
    \o <<10>>

\* the characters pushed for one character row, the '\n' after it included
BrailleRow(pix, char_row, vertical_lines) ==
    [c \in 1..GRAPH_CHAR_WIDTH |-> CellChar(CellBits(pix, char_row, c - 1))]
    \o (IF char_row + 1 < vertical_lines THEN <<10>> ELSE <<>>)

RECURSIVE BrailleRows(_, _, _)
BrailleRows(pix, char_row, vertical_lines) ==
    IF char_row >= vertical_lines THEN <<>>
    ELSE BrailleRow(pix, char_row, vertical_lines)
         \o BrailleRows(pix, char_row + 1, vertical_lines)

braille_graph(data, vertical_lines) ==
    IF Len(data) = 0 \/ vertical_lines = 0 THEN <<>>
    ELSE LET px_w == GRAPH_CHAR_WIDTH * 2
             px_h == vertical_lines * 4
         IN BrailleRows(Canvas(data, px_w, px_h), 0, vertical_lines)

\* one call of each renderer on g_data, braille_graph with g_lines rows
Render ==
    /\ ~rendered
    /\ rendered' = TRUE
    /\ block_out' = block_graph(g_data)
    /\ braille_out' = braille_graph(g_data, g_lines)
    /\ UNCHANGED <<g_data, g_lines, l_from, l_to, l_pixels>>
    /\ UNCHANGED <<monitor_vars, sys_vars, uniforms, call_vars>>

\* ------------------------------------------------------------------------
\* Construction
\* ------------------------------------------------------------------------
\* ResourceMonitor::new() on a host with `count` logical CPUs, with (`nvml`)
\* or without a GPU provider, whose device reports the name `name`
New(nvml, name, count) ==
    /\ nv = nvml
    /\ gpu_name = name
    /\ cpu_info = [physical_cores |-> count, cpu_count |-> count,
                   cpu_avg |-> F(0), cpu_max |-> F(0), cpu_freq |-> F(0)]
    /\ gpu_info = GpuInfoDefault
    /\ smooth = InterpolatedInfoDefault
    /\ process_info = <<>>
    /\ process_sort_by = "Cpu"
    /\ ram_used = 0
    /\ cpu_avgs = ZeroHistory
    /\ gpu_avgs = ZeroHistory
    \* the baseline refresh of the constructor
    /\ sys_global_cpu_usage = F(0)
    /\ sys_cpus = [i \in 1..count |-> [cpu_usage |-> F(0), frequency |-> 0]]
    /\ sys_used_memory = 0
    /\ sys_processes = <<>>
    \* FragmentShaderProgram::new
    /\ uniforms = [cpu_util |-> F(0), cpu_max |-> F(0), cpu_freq |-> F(0)]
    /\ gpudat = <<>>
    /\ frames = 0
    /\ sorted_by = <<>>
    /\ cpu_pushed = <<>>
    /\ gpu_pushed = <<>>

\* gpu_name(&nv).ok().unwrap_or_default(): the names construction can store
GpuNames(nvml) == IF nvml THEN {"", "GPU"} ELSE {""}

\* no run of the Bresenham loop on its own
NoLine ==
    /\ l_from = <<>>
    /\ l_to = <<>>
    /\ l_pixels = <<>>

NoRender ==
    /\ g_data = <<>>
    /\ g_lines = 0
    /\ rendered = FALSE
    /\ block_out = <<>>
    /\ braille_out = <<>>
    /\ NoLine

Init ==
    /\ \E nvml \in BOOLEAN : \E name \in GpuNames(nvml) : \E count \in 0..MaxCpus :
          New(nvml, name, count)
    /\ NoRender

\* ------------------------------------------------------------------------
\* The host's readings
\* ------------------------------------------------------------------------
\* two loads of the host. Per logical CPU i: utilization and frequency (MHz);
\* "busy" runs above MAX_CPU_FREQ
HostLoads == {"light", "busy"}

LightUsage == <<10, 55, 30, 0>>
BusyUsage == <<90, 55, 100, 70>>

CpuReading(load, i) ==
    LET k == ((i - 1) % Len(LightUsage)) + 1 IN
    IF load = "light" THEN [cpu_usage |-> F(LightUsage[k]), frequency |-> 1000 * k]
    ELSE [cpu_usage |-> F(BusyUsage[k]), frequency |-> 6000]

\* sys.cpus() after a refresh under `load`
CpusReading(load, count) == [i \in 1..count |-> CpuReading(load, i)]

\* sys.global_cpu_usage() after a refresh under `load`
UsageReading(load) == IF load = "light" THEN F(20) ELSE F(85)

\* sys.used_memory() after a refresh under `load` (bytes)
MemReading(load) == IF load = "light" THEN 4000 ELSE 6000

\* successful GPU query results
GpuReadings ==
    {[mem_used |-> 1000, mem_total |-> 8000, clock |-> F(1500),
      power |-> F(5000), util |-> F(30)],
     [mem_used |-> 2000, mem_total |-> 8000, clock |-> F(2100),
      power |-> F(9000), util |-> F(80)]}

\* outcomes of the device queries of gpu_update
GpuOutcomes == {<<>>} \cup {<<g>> : g \in GpuReadings}

\* the tables a refresh can find when the processes `pids` come and go with
\* the readings `readings`: at most one process differs from the last refresh
NextTables(table, pids, readings) ==
    {table}
    \cup {[q \in DOMAIN table \ {p} |-> table[q]] : p \in DOMAIN table \cap pids}
    \cup {(p :> r) @@ table : p \in pids, r \in readings}

\* ------------------------------------------------------------------------
\* The monitor under any interleaving of its entry points
\* ------------------------------------------------------------------------
DataTick ==
    /\ Len(cpu_pushed) < MaxTicks
    /\ \E load \in HostLoads : \E dev \in GpuOutcomes :
          UpdateCpuGpuMem(UsageReading(load),
                          CpusReading(load, cpu_info.cpu_count),
                          MemReading(load), dev)

SortingChoice == \E sort_by \in {"Cpu", "Ram"} : SetProcessSorting(sort_by)

\* a process refresh on a host where one process "x" comes and goes
ProcessTick ==
    \E table \in NextTables(sys_processes, {1}, {r \in ProcReadings : r.name = "x"}) :
        UpdateProcesses(table)

VisualTick ==
    /\ frames < MaxFrames
    /\ UpdateVisual

Next == DataTick \/ SortingChoice \/ ProcessTick \/ VisualTick

Spec == Init /\ [][Next]_vars

\* ------------------------------------------------------------------------
\* The process aggregation on every process table
\* ------------------------------------------------------------------------
\* a host with a GPU provider and MaxCpus logical CPUs
InitHost == New(TRUE, "GPU", MaxCpus) /\ NoRender

ProcessTickAll ==
    \E table \in NextTables(sys_processes, 1..MaxPid, ProcReadings) :
        UpdateProcesses(table)

NextProc == SortingChoice \/ ProcessTickAll

SpecProc == InitHost /\ [][NextProc]_vars

\* ------------------------------------------------------------------------
\* A long run of data ticks: the history buffers fill up and wrap
\* ------------------------------------------------------------------------
\* the k-th tick reads a utilization of k percent from the CPU and, when the
\* GPU answers, of 50 + k percent from the GPU: every sample is different
RampGpu(k) ==
    [mem_used |-> 1000, mem_total |-> 8000, clock |-> F(1500),
     power |-> F(5000), util |-> F(50 + k)]

HistTick ==
    LET k == Len(cpu_pushed) + 1 IN
    /\ k <= GRAPH_CHAR_WIDTH + HistExtra
    /\ \E dev \in {<<>>, <<RampGpu(k)>>} :
          /\ dev = <<>> => Len(cpu_pushed) - Len(gpu_pushed) < MaxGpuFailures
          /\ UpdateCpuGpuMem(F(k), CpusReading("light", cpu_info.cpu_count),
                             MemReading("light"), dev)

NextHist == HistTick

SpecHist == InitHost /\ [][NextHist]_vars

\* ------------------------------------------------------------------------
\* The renderers on every short input
\* ------------------------------------------------------------------------
\* samples, two of them outside [0, 100]
GraphSamples == {Fin(-5 * SCALE), F(0), F(30), F(50), F(100), F(120)}

GraphData == UNION {[1..n -> GraphSamples] : n \in 0..MaxData}

InitGraph ==
    /\ New(FALSE, "", 0)
    /\ g_data \in GraphData
    /\ g_lines \in 0..MaxLines
    /\ rendered = FALSE
    /\ block_out = <<>>
    /\ braille_out = <<>>
    /\ NoLine

NextGraph == Render

SpecGraph == InitGraph /\ [][NextGraph]_vars

\* ------------------------------------------------------------------------
\* The drawing loop on its own: braille_graph on every short input, and the
\* Bresenham loop between pixels of the canvas
\* ------------------------------------------------------------------------
\* the pixels of a canvas of px_w by px_h
CanvasPixels(px_w, px_h) == (0..(px_w - 1)) \X (0..(px_h - 1))

\* the corners, the edge midpoints and the centre of the canvas
LineStarts(px_w, px_h) ==
    {0, px_w \div 2, px_w - 1} \X {0, px_h \div 2, px_h - 1}

\* one pass of the loop body of lines 325-346 from l_from to l_to
DrawLine ==
    /\ l_from # <<>>
    /\ l_pixels = <<>>
    /\ l_pixels' = Bresenham(l_from, l_to)
    /\ UNCHANGED <<l_from, l_to, g_data, g_lines, rendered, block_out, braille_out>>
    /\ UNCHANGED <<monitor_vars, sys_vars, uniforms, call_vars>>

\* either an input of braille_graph, or a canvas of 1..MaxLines rows with a
\* line from one of LineStarts to any of its pixels
InitLine ==
    \/ InitGraph
    \/ /\ New(FALSE, "", 0)
       /\ g_data = <<>>
       /\ rendered = FALSE
       /\ block_out = <<>>
       /\ braille_out = <<>>
       /\ g_lines \in 1..MaxLines
       /\ l_from \in LineStarts(2 * GRAPH_CHAR_WIDTH, 4 * g_lines)
       /\ l_to \in CanvasPixels(2 * GRAPH_CHAR_WIDTH, 4 * g_lines)
       /\ l_pixels = <<>>

NextLine == Render \/ DrawLine

SpecLine == InitLine /\ [][NextLine]_vars

\* ------------------------------------------------------------------------
\* A long run of visual ticks under a steady load: every data tick reads the
\* same values from the host and from the GPU
\* ------------------------------------------------------------------------
SteadyDataTick ==
    /\ Len(cpu_pushed) < MaxSteadyTicks
    /\ \E load \in HostLoads : \E dev \in GpuOutcomes :
          /\ Len(cpu_pushed) >= 1 => sys_global_cpu_usage = UsageReading(load)
          /\ gpu_info = GpuInfoDefault \/ dev = <<>> \/ dev = <<gpu_info>>
          /\ UpdateCpuGpuMem(UsageReading(load),
                             CpusReading(load, cpu_info.cpu_count),
                             MemReading(load), dev)

LongVisualTick ==
    /\ frames < MaxEmaFrames
    /\ UpdateVisual

NextEma == SteadyDataTick \/ LongVisualTick

SpecEma == InitHost /\ [][NextEma]_vars

\* ------------------------------------------------------------------------
\* Properties
\* ------------------------------------------------------------------------
Min(a, b) == IF a <= b THEN a ELSE b

\* buf holds the most recent of the samples `pushed` (oldest first), newest
\* at Rust index 0
NewestFirst(buf, pushed) ==
    /\ Len(buf) = GRAPH_CHAR_WIDTH
    /\ \A i \in 0..(Min(Len(pushed), GRAPH_CHAR_WIDTH) - 1) :
          buf[i + 1] = pushed[Len(pushed) - i]

\* new is old with v shifted in at Rust index 0 and the oldest entry dropped
ShiftedIn(new, old, v) ==
    /\ Len(new) = Len(old)
    /\ new[1] = v
    /\ \A i \in 2..Len(new) : new[i] = old[i - 1]

\* a step that is one call of update_cpu_gpu_mem
IsDataTick == Len(cpu_pushed') = Len(cpu_pushed) + 1

\* a step that is one call of update_visual
IsVisualTick == frames' = frames + 1

\* C1: after any number k of pushes a history buffer still has
\* GRAPH_CHAR_WIDTH entries and Rust index i holds the (i+1)-th most recent
\* pushed sample for every i < min(k, GRAPH_CHAR_WIDTH), the newest at index 0.
C1_HistoryNewestFirst ==
    /\ NewestFirst(cpu_avgs, cpu_pushed)
    /\ NewestFirst(gpu_avgs, gpu_pushed)

\* C1 witness: GRAPH_CHAR_WIDTH + 1 samples were pushed into both buffers, the
\* first one is gone and the second one is the oldest entry
C1_Witness ==
    /\ Len(cpu_pushed) = GRAPH_CHAR_WIDTH + 1
    /\ Len(gpu_pushed) = GRAPH_CHAR_WIDTH + 1
    /\ cpu_avgs[1] = cpu_pushed[GRAPH_CHAR_WIDTH + 1]
    /\ cpu_avgs[GRAPH_CHAR_WIDTH] = cpu_pushed[2]
    /\ \A i \in 1..GRAPH_CHAR_WIDTH : cpu_avgs[i] # cpu_pushed[1]
    /\ \A i \in 1..GRAPH_CHAR_WIDTH : gpu_avgs[i] # gpu_pushed[1]

\* C2 as stated: every data tick shifts one raw sample into index 0 of the
\* CPU history and of the GPU history, also when the GPU query fails (the
\* GPU sample is then the utilization of the carried-forward snapshot).
C2_Original_PushEveryTick ==
    [][IsDataTick =>
          /\ ShiftedIn(cpu_avgs', cpu_avgs, sys_global_cpu_usage')
          /\ ShiftedIn(gpu_avgs', gpu_avgs, gpu_info'.util)]_vars

\* C2 amended: every data tick shifts the raw CPU reading into index 0 of the
\* CPU history; it shifts the raw GPU utilization into index 0 of the GPU
\* history when the GPU query succeeds and leaves the GPU history as it is
\* when the query fails; update_visual changes neither buffer.
C2_PushPerTick ==
    [][/\ IsDataTick =>
            /\ ShiftedIn(cpu_avgs', cpu_avgs, sys_global_cpu_usage')
            /\ cpu_avgs'[1] = cpu_info'.cpu_avg
            /\ gpudat' # <<>> => ShiftedIn(gpu_avgs', gpu_avgs, gpudat'[1].util)
            /\ gpudat' = <<>> => gpu_avgs' = gpu_avgs
       /\ IsVisualTick => cpu_avgs' = cpu_avgs /\ gpu_avgs' = gpu_avgs]_vars

\* C2 witness: a data tick whose GPU query failed after an earlier one
\* succeeded, with visual ticks in between
C2_Witness ==
    /\ nv
    /\ gpudat = <<>>
    /\ Len(gpu_pushed) >= 1
    /\ Len(cpu_pushed) > Len(gpu_pushed)
    /\ frames >= 1
    /\ gpu_avgs[1] # F(0)
    /\ gpu_avgs[2] = F(0)

\* C3: a data tick whose GPU query fails leaves the stored GPU snapshot as it
\* was; a data tick whose query succeeds stores the queried snapshot.
C3_CarryForward ==
    [][IsDataTick =>
          /\ gpudat' = <<>> => gpu_info' = gpu_info
          /\ gpudat' # <<>> => gpu_info' = gpudat'[1]]_vars

\* C3 witness: the query of the last data tick failed and the snapshot of an
\* earlier successful query is still stored
C3_Witness ==
    /\ gpudat = <<>>
    /\ Len(cpu_pushed) >= 2
    /\ gpu_info \in GpuReadings

\* C4: without a GPU provider every GPU-derived value stays zero or empty.
C4_GpuAbsentZero ==
    ~nv =>
        /\ gpu_info = GpuInfoDefault
        /\ smooth.gpu_clock = F(0)
        /\ smooth.gpu_power = F(0)
        /\ smooth.gpu_util = F(0)
        /\ \A i \in 1..GRAPH_CHAR_WIDTH : gpu_avgs[i] = F(0)
        /\ Len(gpu_avgs) = GRAPH_CHAR_WIDTH
        /\ gpu_name = ""

\* C4 witness: no GPU provider, and every entry point has run
C4_Witness ==
    /\ ~nv
    /\ Len(cpu_pushed) >= 2
    /\ frames >= 2
    /\ sorted_by # <<>>
    /\ process_info # <<>>

\* the pids of a table whose process has the name n
PidsNamed(table, n) == {p \in DOMAIN table : table[p].name = n}

\* m is the largest of the f32 values S
IsFMax(m, S) == m \in S /\ \A x \in S : ~FLt(m, x)

\* m is the largest of the numbers S
IsMax(m, S) == m \in S /\ \A x \in S : x <= m

\* C5: after update_processes the record list has exactly one record per
\* process name of the table, and each record's cpu and mem are the maxima of
\* the cpu and of the mem over the processes of that name.
C5_MaxPerName ==
    sorted_by # <<>> =>
        /\ {process_info[i].name : i \in DOMAIN process_info} = TableNames(sys_processes)
        /\ \A i, j \in DOMAIN process_info :
              process_info[i].name = process_info[j].name => i = j
        /\ \A i \in DOMAIN process_info :
              LET same == PidsNamed(sys_processes, process_info[i].name) IN
              /\ IsFMax(process_info[i].cpu, {sys_processes[p].cpu_usage : p \in same})
              /\ IsMax(process_info[i].mem, {sys_processes[p].memory : p \in same})

\* C5 witness: two processes "x" with (cpu 10, mem 100) and (cpu 40, mem 50)
\* and a process "y" gave one record "x" with cpu 40 and mem 100, and one "y"
C5_Witness ==
    /\ \E p, q \in DOMAIN sys_processes :
          /\ sys_processes[p] = [name |-> "x", cpu_usage |-> F(10), memory |-> 100]
          /\ sys_processes[q] = [name |-> "x", cpu_usage |-> F(40), memory |-> 50]
    /\ "y" \in TableNames(sys_processes)
    /\ Len(process_info) = 2
    /\ \E i \in DOMAIN process_info :
          /\ process_info[i].name = "x"
          /\ process_info[i].cpu = F(40)
          /\ process_info[i].mem = 100

\* records in descending order of the key
SortedDescending(self, list) ==
    \A i \in 1..(Len(list) - 1) :
        IF self = "Cpu" THEN ~FLt(list[i].cpu, list[i + 1].cpu)
        ELSE list[i].mem >= list[i + 1].mem

\* three processes with the CPU percentages 5, 90 and 20
ThreeProcesses ==
    (1 :> [name |-> "a", cpu_usage |-> F(5), memory |-> 300])
    @@ (2 :> [name |-> "b", cpu_usage |-> F(90), memory |-> 100])
    @@ (3 :> [name |-> "c", cpu_usage |-> F(20), memory |-> 200])

\* C6: after update_processes the record list is in descending order of the
\* sort key in force at the call (Cpu unless set_process_sorting chose Ram);
\* CPUs 5, 90, 20 sorted by Cpu give 90, 20, 5.
C6_SortedByKey ==
    /\ sorted_by # <<>> => SortedDescending(sorted_by[1], process_info)
    /\ \A list \in ProcessLists("Cpu", ThreeProcesses) :
          [i \in 1..3 |-> list[i].cpu] = <<F(90), F(20), F(5)>>

\* C6 witness: sorted by Ram after set_process_sorting, in an order that is
\* not descending by cpu
C6_Witness ==
    /\ sorted_by = <<"Ram">>
    /\ Len(process_info) = 2
    /\ process_info[1].mem > process_info[2].mem
    /\ FLt(process_info[1].cpu, process_info[2].cpu)

\* the names of a record list, in its order
Names(list) == [i \in DOMAIN list |-> list[i].name]

\* C7 as stated: update_processes run again with the same sort key on an
\* unchanged process table yields the same record order, ties included.
C7_Original_SameOrderOnRerun ==
    [][(/\ sorted_by # <<>>
        /\ sorted_by' = sorted_by
        /\ sorted_by = <<process_sort_by>>
        /\ sys_processes' = sys_processes)
       => Names(process_info') = Names(process_info)]_vars

\* C8 as stated: after update_cpu_gpu_mem cpu_max is the maximum of the
\* per-logical-CPU utilizations read in that tick, and exactly 0 when the
\* host has no logical CPU.
C8_Original_CpuMax ==
    Len(cpu_pushed) >= 1 =>
        IF Len(sys_cpus) = 0 THEN cpu_info.cpu_max = F(0)
        ELSE IsFMax(cpu_info.cpu_max, {sys_cpus[i].cpu_usage : i \in DOMAIN sys_cpus})

\* the glyph index the specification gives for a sample: round(v/100 * 8),
\* clamped to [0, 8]
SpecBlockIndex(v) ==
    LET index == RoundDiv(8 * v.v, 100 * SCALE)
    IN IF index < 0 THEN 0 ELSE IF index > 8 THEN 8 ELSE index

InRange(v) == IsFin(v) /\ v.v >= 0 /\ v.v <= 100 * SCALE

\* C9 as stated: block_graph gives one glyph per sample, in input order, and
\* the glyph of a sample v in [0, 100] is the one at index round(v/100 * 8).
C9_Original_BlockIndex ==
    rendered =>
        /\ Len(block_out) = Len(g_data)
        /\ \A i \in DOMAIN g_data :
              InRange(g_data[i]) =>
                  block_out[i] = BLOCK_GRAPH_GLYPHS[SpecBlockIndex(g_data[i]) + 1]

\* the character of braille_out for the cell (char_row, char_col), rows being
\* GRAPH_CHAR_WIDTH characters and one '\n' apart
CharAt(out, char_row, char_col) == out[char_row * (GRAPH_CHAR_WIDTH + 1) + char_col + 1]

\* the lit sub-pixels of the cell (char_row, char_col) of a canvas
LitSubPixels(pix, char_row, char_col) ==
    {s \in (0..1) \X (0..3) : <<char_col * 2 + s[1], char_row * 4 + s[2]>> \in pix}

RECURSIVE SumBits(_)
SumBits(S) ==
    IF S = {} THEN 0
    ELSE LET s == CHOOSE x \in S : TRUE
         IN BrailleBit(s[1], s[2]) + SumBits(S \ {s})

\* C10: braille_graph returns the empty string for empty data or zero rows;
\* otherwise g_lines rows of GRAPH_CHAR_WIDTH characters, joined by '\n' with
\* none at the end, a cell without a lit sub-pixel being ' ' and any other
\* cell U+2800 + bits.
C10_BrailleShape ==
    rendered =>
        IF Len(g_data) = 0 \/ g_lines = 0 THEN braille_out = <<>>
        ELSE LET pix == Canvas(g_data, 2 * GRAPH_CHAR_WIDTH, 4 * g_lines) IN
             /\ Len(braille_out) = g_lines * GRAPH_CHAR_WIDTH + (g_lines - 1)
             /\ \A r \in 1..(g_lines - 1) : braille_out[r * (GRAPH_CHAR_WIDTH + 1)] = 10
             /\ \A r \in 0..(g_lines - 1) : \A c \in 0..(GRAPH_CHAR_WIDTH - 1) :
                   LET lit == LitSubPixels(pix, r, c) IN
                   CharAt(braille_out, r, c) =
                       IF lit = {} THEN 32 ELSE 10240 + SumBits(lit)

\* C10 witness: two rows were rendered from several samples, with lit cells,
\* blank cells and one '\n'
C10_Witness ==
    /\ rendered
    /\ Len(g_data) >= 2
    /\ g_lines = 2
    /\ Len(braille_out) = 2 * GRAPH_CHAR_WIDTH + 1
    /\ \E i \in DOMAIN braille_out : braille_out[i] > 10240
    /\ \E i \in DOMAIN braille_out : braille_out[i] = 32

\* every sample of data is the same value
Constant(data) == \A i \in DOMAIN data : data[i] = data[1]

\* the characters of the row char_row of braille_out
RowOf(out, char_row) == [c \in 1..GRAPH_CHAR_WIDTH |-> CharAt(out, char_row, c - 1)]

\* C11 as stated: for a constant input of any length N >= 1 and any row count
\* R >= 1, braille_graph gives R identical rows, each a single bit pattern
\* repeated in all GRAPH_CHAR_WIDTH cells.
C11_Original_IdenticalRows ==
    (rendered /\ Len(g_data) >= 1 /\ g_lines >= 1 /\ Constant(g_data)) =>
        /\ \A r \in 0..(g_lines - 1) : RowOf(braille_out, r) = RowOf(braille_out, 0)
        /\ \A r \in 0..(g_lines - 1) : \A c \in 0..(GRAPH_CHAR_WIDTH - 1) :
              CharAt(braille_out, r, c) = CharAt(braille_out, r, 0)

\* C11 amended: a constant input v is drawn in the pixel row
\* y = round((1 - v/100) * (4R - 1)) only. With N >= 2 samples the character
\* row y div 4 is one pattern, the two dots of sub-row y mod 4, repeated in
\* all GRAPH_CHAR_WIDTH cells, and every other character row is blank; with
\* N = 1 the only dot is the right one of sub-row y mod 4 in the cell of
\* column (2 * GRAPH_CHAR_WIDTH - 1) div 4, and every other cell is blank.
C11_FlatLine ==
    (rendered /\ Len(g_data) >= 1 /\ g_lines >= 1 /\ Constant(g_data)) =>
        LET y == PixelY(g_data[1], 4 * g_lines)
            both == 10240 + BrailleBit(0, y % 4) + BrailleBit(1, y % 4)
            right == 10240 + BrailleBit(1, y % 4)
            centre == (2 * GRAPH_CHAR_WIDTH - 1) \div 4
        IN \A r \in 0..(g_lines - 1) : \A c \in 0..(GRAPH_CHAR_WIDTH - 1) :
              CharAt(braille_out, r, c) =
                  IF r # y \div 4 THEN 32
                  ELSE IF Len(g_data) >= 2 THEN both
                  ELSE IF c = centre THEN right ELSE 32

\* C11 witness: three samples of 50 percent on two rows gave a blank first row
\* and a second row of 28 times the pattern of sub-row 0 (U+2809)
C11_Witness ==
    /\ rendered
    /\ g_lines = 2
    /\ g_data = <<F(50), F(50), F(50)>>
    /\ RowOf(braille_out, 0) = [c \in 1..GRAPH_CHAR_WIDTH |-> 32]
    /\ RowOf(braille_out, 1) = [c \in 1..GRAPH_CHAR_WIDTH |-> 10249]

\* one call of the smoothing with weight alpha percent moved the smoothed
\* value s to t while the raw value was x >= 0:
\* t = alpha * s + (1 - alpha) * x, s <= t <= x, and t is no farther from x
EmaStep(alpha, s, t, x) ==
    (IsFin(x) /\ x.v >= 0) =>
        /\ IsFin(s) /\ IsFin(t)
        /\ t.v = RoundDiv(alpha * s.v, 100) + RoundDiv((100 - alpha) * x.v, 100)
        /\ s.v <= t.v
        /\ t.v <= x.v
        /\ Abs(x.v - t.v) <= Abs(x.v - s.v)

\* C12: every smoothed scalar starts at 0, and under a steady load each call
\* of update_visual applies new = alpha * old + (1 - alpha) * x to the raw
\* value x >= 0 (alpha 0.95 for the display values, 0.99 for the animation
\* values): the smoothed value does not decrease, does not exceed x, and its
\* distance to x does not grow.
C12_EmaMonotone ==
    [][/\ frames = 0 => smooth = InterpolatedInfoDefault
       /\ InterpolatedInfoDefault = [f \in DOMAIN smooth |-> F(0)]
       /\ IsVisualTick =>
            /\ EmaStep(95, smooth.cpu_avg, smooth'.cpu_avg, cpu_info.cpu_avg)
            /\ EmaStep(95, smooth.cpu_max, smooth'.cpu_max, cpu_info.cpu_max)
            /\ EmaStep(95, smooth.cpu_freq, smooth'.cpu_freq, cpu_info.cpu_freq)
            /\ EmaStep(99, smooth.cpu_avg_smooth, smooth'.cpu_avg_smooth, cpu_info.cpu_avg)
            /\ EmaStep(99, smooth.cpu_max_smooth, smooth'.cpu_max_smooth, cpu_info.cpu_max)
            /\ EmaStep(99, smooth.cpu_freq_smooth, smooth'.cpu_freq_smooth, cpu_info.cpu_freq)
            /\ EmaStep(95, smooth.gpu_clock, smooth'.gpu_clock, gpu_info.clock)
            /\ EmaStep(95, smooth.gpu_power, smooth'.gpu_power, gpu_info.power)
            /\ EmaStep(95, smooth.gpu_util, smooth'.gpu_util, gpu_info.util)]_vars

\* C12 witness: after 50 or more calls under the busy load (utilization 85,
\* GPU utilization 80) the display values have passed nine tenths of the raw
\* values without reaching them and the animation value is still far below
C12_Witness ==
    /\ frames >= 50
    /\ cpu_info.cpu_avg = F(85)
    /\ FLt(F(76), smooth.cpu_avg) /\ FLt(smooth.cpu_avg, F(85))
    /\ FLt(F(30), smooth.cpu_avg_smooth) /\ FLt(smooth.cpu_avg_smooth, F(40))
    /\ gpu_info.util = F(80)
    /\ FLt(F(72), smooth.gpu_util) /\ FLt(smooth.gpu_util, F(80))

\* v is a number of [0, 1]
InUnit(v) == IsFin(v) /\ v.v >= 0 /\ v.v <= SCALE

\* C13 as stated: after every update_visual call, on every host (one with 0
\* logical CPUs included), each of the three values handed to
\* update_uniforms_tick lies in [0, 1], and a smoothed frequency above
\* MAX_CPU_FREQ gives exactly 1.
C13_Original_UniformsInUnit ==
    frames >= 1 =>
        /\ InUnit(uniforms.cpu_util)
        /\ InUnit(uniforms.cpu_max)
        /\ InUnit(uniforms.cpu_freq)
        /\ FLt(F(MAX_CPU_FREQ), smooth.cpu_freq_smooth) => uniforms.cpu_freq = F(1)

\* the dot of the canvas pixel (x, y) is set in the string `out`
OutLit(out, x, y) ==
    LET ch == CharAt(out, y \div 4, x \div 2)
    IN /\ ch > 10240
       /\ ((ch - 10240) \div BrailleBit(x % 2, y % 4)) % 2 = 1

\* consecutive pixels of seg are at most 1 apart in x and in y
Connected8(seg) ==
    \A i \in 1..(Len(seg) - 1) :
        /\ Abs(seg[i + 1][1] - seg[i][1]) <= 1
        /\ Abs(seg[i + 1][2] - seg[i][2]) <= 1

\* C14: with two or more samples, for every consecutive pair of sample points
\* both end points are lit, the pixels of the segment go from the first to
\* the second in steps of at most 1 in x and in y and are all lit, every
\* column from x0 to x1 holds a pixel of the segment, and when y0 = y1 every
\* pixel (x, y0) with x0 <= x <= x1 is lit.
C14_SegmentsConnected ==
    (rendered /\ Len(g_data) >= 2 /\ g_lines >= 1) =>
        LET coords == Coords(g_data, 2 * GRAPH_CHAR_WIDTH, 4 * g_lines) IN
        \A k \in 1..(Len(coords) - 1) :
            LET p == coords[k]
                q == coords[k + 1]
                seg == Bresenham(p, q)
            IN /\ OutLit(braille_out, p[1], p[2])
               /\ OutLit(braille_out, q[1], q[2])
               /\ seg[1] = p /\ seg[Len(seg)] = q
               /\ Connected8(seg)
               /\ \A i \in DOMAIN seg : OutLit(braille_out, seg[i][1], seg[i][2])
               /\ \A x \in p[1]..q[1] : \E i \in DOMAIN seg : seg[i][1] = x
               /\ p[2] = q[2] => \A x \in p[1]..q[1] : OutLit(braille_out, x, p[2])

\* C14 witness: the samples 0, 100, 100 on two rows gave a rising segment
\* from (0, 7) to (28, 0) and a flat one from (28, 0) to (55, 0)
C14_Witness ==
    /\ rendered
    /\ g_lines = 2
    /\ g_data = <<F(0), F(100), F(100)>>
    /\ Coords(g_data, 2 * GRAPH_CHAR_WIDTH, 8) = << <<0, 7>>, <<28, 0>>, <<55, 0>> >>
    /\ OutLit(braille_out, 0, 7)
    /\ OutLit(braille_out, 14, 4) \/ OutLit(braille_out, 14, 3)
    /\ \A x \in 28..55 : OutLit(braille_out, x, 0) /\ ~OutLit(braille_out, x, 1)

\* a step that is one call of update_processes
IsProcessTick ==
    sorted_by' # sorted_by \/ sys_processes' # sys_processes \/ process_info' # process_info

\* C15: a call of update_visual leaves the raw CPU snapshot, the raw GPU
\* snapshot (mem_used and mem_total included), ram_used, the process list, the
\* sort key and both history buffers as they were; a call of
\* update_cpu_gpu_mem or of update_processes leaves every smoothed value as it
\* was.
C15_FrameOfTicks ==
    [][/\ IsVisualTick =>
            /\ cpu_info' = cpu_info
            /\ gpu_info' = gpu_info
            /\ ram_used' = ram_used
            /\ process_info' = process_info
            /\ process_sort_by' = process_sort_by
            /\ cpu_avgs' = cpu_avgs /\ cpu_pushed' = cpu_pushed
            /\ gpu_avgs' = gpu_avgs /\ gpu_pushed' = gpu_pushed
       /\ IsDataTick => smooth' = smooth
       /\ IsProcessTick => smooth' = smooth
       /\ smooth' # smooth => IsVisualTick]_vars

\* C15 witness: two visual ticks after a data tick with a successful GPU
\* query and a process refresh moved the smoothed values and left the
\* snapshots, the process list and the one sample of each history in place
C15_Witness ==
    /\ frames = 2
    /\ Len(cpu_pushed) = 1 /\ Len(gpu_pushed) = 1
    /\ sorted_by # <<>> /\ process_info # <<>>
    /\ smooth.cpu_avg # F(0) /\ smooth.gpu_util # F(0)
    /\ gpu_info.mem_used = 2000 /\ gpu_info.mem_total = 8000
    /\ ram_used = 6000
    /\ cpu_avgs[1] = F(85) /\ cpu_avgs[2] = F(0)
    /\ gpu_avgs[1] = F(80) /\ gpu_avgs[2] = F(0)

Max(a, b) == IF a >= b THEN a ELSE b

\* p lies in the bounding box of a and b
InBox(p, a, b) ==
    /\ Min(a[1], b[1]) <= p[1] /\ p[1] <= Max(a[1], b[1])
    /\ Min(a[2], b[2]) <= p[2] /\ p[2] <= Max(a[2], b[2])

\* C16: between any two pixels of the canvas the Bresenham loop makes at most
\* max(|x1 - x0|, |y1 - y0|) + 1 iterations, the last one on (x1, y1), and
\* every pixel it visits lies in the bounding box of the two; for data of any
\* length >= 1 and any R >= 1 every set_pixel call of braille_graph is inside
\* the canvas and every index written or read by the cell packing is inside
\* the buffer of px_w * px_h entries.
C16_LoopBounded ==
    /\ l_pixels # <<>> =>
          /\ Len(l_pixels) <= Max(Abs(l_to[1] - l_from[1]), Abs(l_to[2] - l_from[2])) + 1
          /\ l_pixels[1] = l_from
          /\ l_pixels[Len(l_pixels)] = l_to
          /\ \A i \in DOMAIN l_pixels : InBox(l_pixels[i], l_from, l_to)
    /\ (rendered /\ Len(g_data) >= 1 /\ g_lines >= 1) =>
          LET px_w == 2 * GRAPH_CHAR_WIDTH
              px_h == 4 * g_lines
              calls == SetPixelCalls(Coords(g_data, px_w, px_h))
              inside == 0..(px_w * px_h - 1)
          IN /\ \A i \in DOMAIN calls : InBuffer(calls[i], px_w, px_h)
             /\ WriteIndices(g_data, px_w, px_h) \subseteq inside
             /\ ReadIndices(g_lines, px_w) \subseteq inside
             /\ Cardinality(ReadIndices(g_lines, px_w)) = px_w * px_h

\* C16 witness: a steep line from the bottom right corner of a canvas of two
\* rows up to the pixel (52, 0) took 8 iterations
C16_Witness ==
    /\ g_lines = 2
    /\ l_from = <<55, 7>>
    /\ l_to = <<52, 0>>
    /\ Len(l_pixels) = 8
    /\ l_pixels[8] = <<52, 0>>

====
